---- MODULE Spec2Model ----
(***************************************************************************)
(* Model of src/app.py: a Streamlit project-management application that    *)
(* keeps one CSV table per entity under data/, stores uploaded blobs under *)
(* uploads/ and assets/, and handles one widget interaction per script run.*)
(* Each action below is one handler (one button or form submission) of one *)
(* page function, load_csv at its top and save_csv at its end included.    *)
(***************************************************************************)
EXTENDS Integers, Sequences, FiniteSets, TLC

\* ------------------------------------------------------------------ bounds
\* A create or upload is not offered once it would assign an id above MaxId.
MaxId == 4
\* Total number of rows the data directory holds, over all tables.
MaxRows == 3
\* Number of files one upload request carries (0..MaxBatch).
MaxBatch == 2
\* Number of blobs the uploads and assets directories hold.
MaxStored == 1
\* Total number of rows in the sessions that follow parents and their children.
MaxFamilyRows == 4
\* rows in the data directory, and stored blobs, of an upload session
MaxUploadRows == 4
MaxUploadStored == 2
\* script runs each of two concurrent instances completes
MaxRuns == 2

VARIABLES
    csv,    \* data/<name>: the rows each CSV file holds, as written by to_csv
    disk,   \* uploads/ and assets/: stored path -> blob content
    page,   \* the page chosen in the sidebar, whose function main() calls
    last,   \* the script run just finished: its handler, its message, its writes
    call,   \* a helper called on its own: its arguments, then its result
    mem     \* per application instance: the script run in progress, if any,
            \* with the DataFrame it holds in memory

vars == <<csv, disk, page, last, call, mem>>

\* ------------------------------------------------------------- file names
SITES == "shooting_sites.csv"
ASSETS == "assets.csv"
SCRIPTS == "scripts.csv"
STORYBOARDS == "storyboards.csv"
DEPARTMENTS == "departments.csv"
SCHEDULES == "schedules.csv"
MEALS == "meals.csv"
EDITING_TASKS == "editing_tasks.csv"
ATTACHMENTS == "attachments.csv"

Tables == {SITES, ASSETS, SCRIPTS, STORYBOARDS, DEPARTMENTS, SCHEDULES, MEALS,
           EDITING_TASKS, ATTACHMENTS}

\* The module tag each page passes to attachment_section, and its parent table.
Modules == {"site", "script", "storyboard", "department", "schedule", "meal", "editing"}

\* The five pages of the sidebar radio, by the function main() dispatches to.
Pages ==
    {"page_shooting_materials", "page_scripts_storyboard", "page_departments",
     "page_shooting_schedule", "page_editing_progress"}

\* The page function that calls attachment_section with this module tag.
PageOf(module) ==
    CASE module = "site" -> "page_shooting_materials"
      [] module \in {"script", "storyboard"} -> "page_scripts_storyboard"
      [] module = "department" -> "page_departments"
      [] module \in {"schedule", "meal"} -> "page_shooting_schedule"
      [] module = "editing" -> "page_editing_progress"

ParentTable(module) ==
    CASE module = "site" -> SITES
      [] module = "script" -> SCRIPTS
      [] module = "storyboard" -> STORYBOARDS
      [] module = "department" -> DEPARTMENTS
      [] module = "schedule" -> SCHEDULES
      [] module = "meal" -> MEALS
      [] module = "editing" -> EDITING_TASKS

\* ---------------------------------------------------------------- strings
\* A MIME type is a sequence of characters, so that startswith is a prefix test.
IMAGE == <<"i", "m", "a", "g", "e">>
VIDEO == <<"v", "i", "d", "e", "o">>
APPLICATION_PDF == <<"a", "p", "p", "l", "i", "c", "a", "t", "i", "o", "n", "/", "p", "d", "f">>
IMAGE_PNG == IMAGE \o <<"/", "p", "n", "g">>
TEXT_PLAIN == <<"t", "e", "x", "t", "/", "p", "l", "a", "i", "n">>

\* str.startswith(prefix)
StartsWith(s, prefix) ==
    /\ Len(s) >= Len(prefix)
    /\ SubSeq(s, 1, Len(prefix)) = prefix

\* A validation that lets every value through.
NotStrNever(s) == FALSE

\* A classification that tests the PDF type with startswith as well.
simple_type_by_prefix(mime) ==
    IF mime = <<>> THEN "other"
    ELSE IF StartsWith(mime, IMAGE) THEN "image"
    ELSE IF StartsWith(mime, VIDEO) THEN "video"
    ELSE IF StartsWith(mime, APPLICATION_PDF) THEN "pdf"
    ELSE "other"

\* Python truthiness of a str (or None, modelled as the empty sequence/string):
\* `not x` is true exactly for the empty value.
NotStr(s) == s = ""
NotMime(mime) == mime = <<>>

simple_type_from_mime(mime) ==
    IF NotMime(mime) THEN "other"
    ELSE IF StartsWith(mime, IMAGE) THEN "image"
    ELSE IF StartsWith(mime, VIDEO) THEN "video"
    ELSE IF mime = APPLICATION_PDF THEN "pdf"
    ELSE "other"

\* ------------------------------------------------------------- DataFrames
\* A DataFrame is the sequence of its rows; a row is a record of its columns.
Ids(df) == {df[i].id : i \in 1..Len(df)}

Max(S) == CHOOSE m \in S : \A x \in S : x <= m

\* A next-id policy that counts the rows instead of taking the maximum id.
NextIdByCount(df) == Len(df) + 1

\* new_id = int(df["id"].max()) + 1 if len(df) > 0 else 1
NextId(df) == IF Len(df) > 0 THEN Max(Ids(df)) + 1 ELSE 1

\* pd.concat([df, pd.DataFrame([new_row])], ignore_index=True)
Concat(df, new_row) == Append(df, new_row)

\* A df[df["id"] != selected_id] written with < for !=.
WithoutIdBelow(df, selected_id) == SelectSeq(df, LAMBDA r : r.id < selected_id)

\* df[df["id"] != selected_id]
WithoutId(df, selected_id) == SelectSeq(df, LAMBDA r : r.id # selected_id)

\* A cascade filter that tests the child's own id instead of its foreign key.
WithoutRefById(df, col, value) == SelectSeq(df, LAMBDA r : r.id # value)

\* df[df[col] != value], the cascade filter on a foreign-key column
WithoutRef(df, col, value) == SelectSeq(df, LAMBDA r : r[col] # value)

\* idx = df.index[df["id"] == selected_id][0]
IndexOf(df, selected_id) ==
    CHOOSE i \in 1..Len(df) :
        /\ df[i].id = selected_id
        /\ \A j \in 1..(i - 1) : df[j].id # selected_id

\* df.at[idx, col] = value
At(df, idx, col, value) == [df EXCEPT ![idx] = [@ EXCEPT ![col] = value]]

\* ------------------------------------------------------- CSV round trip
\* The float not-a-number pandas puts where a CSV cell is empty; it is kept
\* apart from the str "nan" that str() makes of it.
NaN == "<NaN>"

\* The text columns of the modelled tables (every other column holds an
\* integer or a path).
TextColumns ==
    {"site_name", "title", "shot_no", "image_path", "name", "location", "people",
     "clip_name"}

\* read_csv: an empty cell, and the cell "nan", are read as NaN.
ReadCell(col, v) == IF col \in TextColumns /\ v \in {"", "nan"} THEN NaN ELSE v

\* to_csv: NaN is written as the empty cell.
WriteCell(col, v) == IF col \in TextColumns /\ v = NaN THEN "" ELSE v

ReadRows(rows) ==
    [i \in 1..Len(rows) |-> [c \in DOMAIN rows[i] |-> ReadCell(c, rows[i][c])]]

WriteRows(df) ==
    [i \in 1..Len(df) |-> [c \in DOMAIN df[i] |-> WriteCell(c, df[i][c])]]

\* load_csv(name, columns): the rows of data/<name>, none when it is absent.
load_csv(name) == ReadRows(csv[name])

\* The data directory after save_csv(name, df) for each <<name, df>> of
\* `writes`, in order: every save overwrites the whole file.
RECURSIVE save_csv(_, _)
save_csv(dir, writes) ==
    IF writes = <<>> THEN dir
    ELSE save_csv([dir EXCEPT ![writes[1][1]] = WriteRows(writes[1][2])], Tail(writes))

\* The file names written, in order.
SavedNames(writes) == [i \in 1..Len(writes) |-> writes[i][1]]

\* --------------------------------------------------------------- inputs
\* What the user may type into a required text field.
Names == {"", "a"}

\* The files offered to an uploader: name, declared MIME type, content.
UploadedFiles ==
    { [name |-> "a.png", type |-> IMAGE_PNG, data |-> 1],
      [name |-> "b.pdf", type |-> APPLICATION_PDF, data |-> 2] }

\* accept_multiple_files=True: any list of up to MaxBatch files.
Batches == UNION {[1..n -> UploadedFiles] : n \in 0..MaxBatch}

\* A single-file uploader: no file, or one.
OneFile == UNION {[1..n -> UploadedFiles] : n \in 0..1}

UPLOAD_DIR == "uploads"
ASSETS_DIR == "assets"

\* pathlib's dir / name, as str(file_path)
Join(dir, name) == dir \o "/" \o name

TotalRows(dir) ==
    Len(dir[SITES]) + Len(dir[ASSETS]) + Len(dir[SCRIPTS]) + Len(dir[STORYBOARDS])
    + Len(dir[DEPARTMENTS]) + Len(dir[SCHEDULES]) + Len(dir[MEALS])
    + Len(dir[EDITING_TASKS]) + Len(dir[ATTACHMENTS])

\* The bound on the model: room for n more rows, none with an id above MaxId.
Room(df, n) ==
    /\ TotalRows(csv) + n <= MaxRows
    /\ (IF Len(df) > 0 THEN Max(Ids(df)) ELSE 0) + n <= MaxId

\* An upload that appends the record without writing the blob.
WriteFileNothing(d, file_path, data) == d

\* A store that keeps the blob already at the path.
WriteFileKeepFirst(d, file_path, data) ==
    [p \in DOMAIN d \cup {file_path} |-> IF p \in DOMAIN d THEN d[p] ELSE data]

\* open(file_path, "wb").write(f.getbuffer()): the blob replaces what is there.
WriteFile(d, file_path, data) ==
    [p \in DOMAIN d \cup {file_path} |-> IF p = file_path THEN data ELSE d[p]]

\* ------------------------------------------------------------ script run
\* One finished script run: the handler that ran, the id of the record it
\* selected or deleted (0 when it selects none), the kind of message shown
\* (st.success, st.error, st.warning, st.info), the names save_csv was called
\* with, and the numbers of rows appended and dropped.
Run(op, sel, msg, writes, added, dropped) ==
    [op |-> op, sel |-> sel, msg |-> msg, saved |-> SavedNames(writes),
     added |-> added, dropped |-> dropped]

\* What a handler leaves behind: the saved tables and the record of the run.
Finish(op, sel, msg, writes, added, dropped) ==
    /\ UNCHANGED <<page, call, mem>>
    /\ csv' = save_csv(csv, writes)
    /\ last' = Run(op, sel, msg, writes, added, dropped)

NoCall == [fn |-> "none"]

\* The application instances (server processes) on one data directory.
Instances == {"A", "B"}

\* An instance between script runs: nothing in memory. `runs` counts the
\* script runs it has completed, `behind` tells whether another instance has
\* saved since this one last loaded.
Idle(runs) == [pc |-> "idle", name |-> "", df |-> <<>>, runs |-> runs, behind |-> FALSE]

\* The application as first started: no CSV file, no blob, the first page.
Fresh ==
    /\ csv = [t \in Tables |-> <<>>]
    /\ disk = [p \in {} |-> 0]
    /\ page = "page_shooting_materials"
    /\ last = Run("start", 0, "", <<>>, 0, 0)
    /\ mem = [i \in Instances |-> Idle(0)]

Init ==
    /\ Fresh
    /\ call = NoCall

\* --------------------------------------------------- attachment_section
\* A listing that filters on ref_id alone.
AttachViewByRef(attachments, module, selected_id) ==
    SelectSeq(attachments, LAMBDA r : r.ref_id = selected_id)

\* attachments[(attachments["module"] == module) & (attachments["ref_id"] == selected_id)]
AttachView(attachments, module, selected_id) ==
    SelectSeq(attachments, LAMBDA r : r.module = module /\ r.ref_id = selected_id)

\* An upload loop that takes every id of the batch from the table as loaded.
AttachLoopStaleId(attachments, d, module, selected_id, files) ==
    [df |-> attachments \o
              [k \in 1..Len(files) |->
                  [id |-> NextId(attachments),
                   module |-> module,
                   ref_id |-> selected_id,
                   file_name |-> files[k].name,
                   file_path |-> Join(Join(UPLOAD_DIR, module), files[k].name),
                   file_type |-> simple_type_from_mime(files[k].type)]],
     disk |-> [p \in DOMAIN d \cup
                       {Join(Join(UPLOAD_DIR, module), files[k].name) : k \in 1..Len(files)}
                 |-> 1]]

\* The upload loop: each file is written to uploads/<module>/<name>, then its
\* row is appended to the in-memory table under the next id of that table.
RECURSIVE AttachLoop(_, _, _, _, _)
AttachLoop(attachments, d, module, selected_id, files) ==
    IF files = <<>> THEN [df |-> attachments, disk |-> d]
    ELSE LET f == Head(files)
             file_path == Join(Join(UPLOAD_DIR, module), f.name)
             new_row == [id |-> NextId(attachments),
                         module |-> module,
                         ref_id |-> selected_id,
                         file_name |-> f.name,
                         file_path |-> file_path,
                         file_type |-> simple_type_from_mime(f.type)]
         IN AttachLoop(Concat(attachments, new_row),
                       WriteFile(d, file_path, f.data),
                       module, selected_id, Tail(files))

\* The upload form of attachment_section(module, ref_df, ...): nothing is
\* written unless the form holds at least one file.
AttachUpload(module, selected_id, files) ==
    /\ page = PageOf(module)
    /\ LET ref_df == load_csv(ParentTable(module))
           attachments == load_csv(ATTACHMENTS)
       IN /\ selected_id \in Ids(ref_df)
          /\ IF Len(files) > 0
             THEN LET out == AttachLoop(attachments, disk, module, selected_id, files)
                  IN /\ disk' = out.disk
                     /\ Finish("attach_upload", selected_id, "success",
                               <<<<ATTACHMENTS, out.df>>>>, Len(files), 0)
             ELSE /\ disk' = disk
                  /\ Finish("attach_upload", selected_id, "", <<>>, 0, 0)

\* The delete button under one listed attachment of the selected record.
AttachDelete(module, selected_id, k) ==
    /\ page = PageOf(module)
    /\ LET ref_df == load_csv(ParentTable(module))
           attachments == load_csv(ATTACHMENTS)
           attach_view == AttachView(attachments, module, selected_id)
       IN /\ selected_id \in Ids(ref_df)
          /\ k \in 1..Len(attach_view)
          /\ LET row == attach_view[k]
                 kept == WithoutId(attachments, row.id)
             IN /\ disk' = disk
                /\ Finish("attach_delete", row.id, "warning",
                          <<<<ATTACHMENTS, kept>>>>, 0,
                          Len(attachments) - Len(kept))

\* -------------------------------------------------- the page handlers
\* A create form with a required text field `col`: an empty value is reported
\* and nothing is written; otherwise the row is appended under the next id.
CreateRequired(op, name, col, value) ==
    LET df == load_csv(name)
    IN /\ disk' = disk
       /\ IF NotStr(value)
          THEN Finish(op, 0, "error", <<>>, 0, 0)
          ELSE LET new_row == [c \in {"id", col} |->
                                     IF c = "id" THEN NextId(df) ELSE value]
                  IN Finish(op, 0, "success", <<<<name, Concat(df, new_row)>>>>, 1, 0)

\* A create form without validation.
CreatePlain(op, name, col, value) ==
    LET df == load_csv(name)
    IN /\ disk' = disk
       /\ LET new_row == [c \in {"id", col} |-> IF c = "id" THEN NextId(df) ELSE value]
          IN Finish(op, 0, "success", <<<<name, Concat(df, new_row)>>>>, 1, 0)

\* The save button of an edit form: the form's value overwrites the column of
\* the selected row.
Edit(op, name, col, selected_id, value_ed) ==
    LET df == load_csv(name)
    IN /\ selected_id \in Ids(df)
       /\ LET idx == IndexOf(df, selected_id)
          IN /\ disk' = disk
             /\ Finish(op, selected_id, "success",
                       <<<<name, At(df, idx, col, value_ed)>>>>, 0, 0)

\* The delete button of an edit form whose handler saves its own table only.
Delete(op, name, selected_id) ==
    LET df == load_csv(name)
        kept == WithoutId(df, selected_id)
    IN /\ selected_id \in Ids(df)
       /\ disk' = disk
       /\ Finish(op, selected_id, "warning", <<<<name, kept>>>>, 0,
                 Len(df) - Len(kept))

\* A parent delete that leaves the child table alone.
DeleteNoCascade(op, name, child, fk, selected_id) == Delete(op, name, selected_id)

\* A cascade that saves the child table before the parent table.
CascadeWritesChildFirst(name, kept, child, kept_children) ==
    <<<<child, kept_children>>, <<name, kept>>>>

\* save_csv(<parent file>, ...) then save_csv(<child file>, ...)
CascadeWrites(name, kept, child, kept_children) ==
    <<<<name, kept>>, <<child, kept_children>>>>

\* The delete button of an edit form whose handler also filters the child
\* table on its foreign-key column: the parent is saved, then the child.
DeleteCascade(op, name, child, fk, selected_id) ==
    LET df == load_csv(name)
        children == load_csv(child)
        kept == WithoutId(df, selected_id)
        kept_children == WithoutRef(children, fk, selected_id)
    IN /\ selected_id \in Ids(df)
       /\ disk' = disk
       /\ Finish(op, selected_id, "warning",
                 CascadeWrites(name, kept, child, kept_children), 0,
                 (Len(df) - Len(kept)) + (Len(children) - Len(kept_children)))

\* ----------------------------------------------- page_shooting_materials
SiteCreate(site_name) ==
    /\ page = "page_shooting_materials"
    /\ CreateRequired("site_create", SITES, "site_name", site_name)

SiteEdit(selected_id, site_name_ed) ==
    /\ page = "page_shooting_materials"
    /\ Edit("site_edit", SITES, "site_name", selected_id, site_name_ed)

SiteDelete(selected_id) ==
    /\ page = "page_shooting_materials"
    /\ DeleteCascade("site_delete", SITES, ASSETS, "site_id", selected_id)

RECURSIVE AssetLoop(_, _, _, _)
AssetLoop(assets, d, selected_site_id, files) ==
    IF files = <<>> THEN [df |-> assets, disk |-> d]
    ELSE LET f == Head(files)
             file_path == Join(ASSETS_DIR, f.name)
             new_row == [id |-> NextId(assets),
                         site_id |-> selected_site_id,
                         file_name |-> f.name,
                         file_path |-> file_path,
                         file_type |-> simple_type_from_mime(f.type)]
         IN AssetLoop(Concat(assets, new_row), WriteFile(d, file_path, f.data),
                      selected_site_id, Tail(files))

AssetUpload(selected_site_id, uploaded_files) ==
    /\ page = "page_shooting_materials"
    /\ LET sites == load_csv(SITES)
           assets == load_csv(ASSETS)
       IN /\ selected_site_id \in Ids(sites)
          /\ IF Len(uploaded_files) = 0
             THEN /\ disk' = disk
                  /\ Finish("asset_upload", selected_site_id, "info", <<>>, 0, 0)
             ELSE LET out == AssetLoop(assets, disk, selected_site_id, uploaded_files)
                  IN /\ disk' = out.disk
                     /\ Finish("asset_upload", selected_site_id, "success",
                               <<<<ASSETS, out.df>>>>, Len(uploaded_files), 0)

AssetDelete(selected_site_id, k) ==
    /\ page = "page_shooting_materials"
    /\ LET sites == load_csv(SITES)
           assets == load_csv(ASSETS)
           site_assets == SelectSeq(assets, LAMBDA r : r.site_id = selected_site_id)
       IN /\ selected_site_id \in Ids(sites)
          /\ k \in 1..Len(site_assets)
          /\ LET row == site_assets[k]
                 kept == WithoutId(assets, row.id)
             IN /\ disk' = disk
                /\ Finish("asset_delete", row.id, "warning",
                          <<<<ASSETS, kept>>>>, 0, Len(assets) - Len(kept))

\* ----------------------------------------------- page_scripts_storyboard
ScriptCreate(title) ==
    /\ page = "page_scripts_storyboard"
    /\ CreateRequired("script_create", SCRIPTS, "title", title)

ScriptEdit(selected_id, title_ed) ==
    /\ page = "page_scripts_storyboard"
    /\ Edit("script_edit", SCRIPTS, "title", selected_id, title_ed)

ScriptDelete(selected_id) ==
    /\ page = "page_scripts_storyboard"
    /\ DeleteCascade("script_delete", SCRIPTS, STORYBOARDS, "script_id", selected_id)

\* image_file is a sequence of at most one file: the uploader is optional.
StoryboardCreate(selected_script_id, shot_no, image_file) ==
    /\ page = "page_scripts_storyboard"
    /\ LET scripts == load_csv(SCRIPTS)
           storyboards == load_csv(STORYBOARDS)
           file_path == Join(Join(ASSETS_DIR, "storyboards"), image_file[1].name)
           image_path == IF Len(image_file) > 0 THEN file_path ELSE ""
           new_row == [id |-> NextId(storyboards),
                       script_id |-> selected_script_id,
                       shot_no |-> shot_no,
                       image_path |-> image_path]
           d2 == IF Len(image_file) > 0
                 THEN WriteFile(disk, file_path, image_file[1].data)
                 ELSE disk
       IN /\ selected_script_id \in Ids(scripts)
          /\ disk' = d2
          /\ Finish("storyboard_create", selected_script_id, "success",
                    <<<<STORYBOARDS, Concat(storyboards, new_row)>>>>, 1, 0)

StoryboardEdit(selected_sb_id, shot_no_ed) ==
    /\ page = "page_scripts_storyboard"
    /\ Edit("storyboard_edit", STORYBOARDS, "shot_no", selected_sb_id, shot_no_ed)

StoryboardDelete(selected_sb_id) ==
    /\ page = "page_scripts_storyboard"
    /\ Delete("storyboard_delete", STORYBOARDS, selected_sb_id)

\* ------------------------------------------------------ page_departments
DeptCreate(name) ==
    /\ page = "page_departments"
    /\ CreateRequired("dept_create", DEPARTMENTS, "name", name)

DeptEdit(selected_id, name_ed) ==
    /\ page = "page_departments"
    /\ Edit("dept_edit", DEPARTMENTS, "name", selected_id, name_ed)

DeptDelete(selected_id) ==
    /\ page = "page_departments"
    /\ Delete("dept_delete", DEPARTMENTS, selected_id)

\* ------------------------------------------------ page_shooting_schedule
ScheduleCreate(location) ==
    /\ page = "page_shooting_schedule"
    /\ CreatePlain("schedule_create", SCHEDULES, "location", location)

ScheduleEdit(selected_id, location_ed) ==
    /\ page = "page_shooting_schedule"
    /\ Edit("schedule_edit", SCHEDULES, "location", selected_id, location_ed)

ScheduleDelete(selected_id) ==
    /\ page = "page_shooting_schedule"
    /\ Delete("schedule_delete", SCHEDULES, selected_id)

MealCreate(people) ==
    /\ page = "page_shooting_schedule"
    /\ CreatePlain("meal_create", MEALS, "people", people)

MealEdit(selected_id, people_ed) ==
    /\ page = "page_shooting_schedule"
    /\ Edit("meal_edit", MEALS, "people", selected_id, people_ed)

MealDelete(selected_id) ==
    /\ page = "page_shooting_schedule"
    /\ Delete("meal_delete", MEALS, selected_id)

\* ------------------------------------------------- page_editing_progress
TaskCreate(clip_name) ==
    /\ page = "page_editing_progress"
    /\ CreateRequired("task_create", EDITING_TASKS, "clip_name", clip_name)

TaskEdit(selected_id, clip_name_ed) ==
    /\ page = "page_editing_progress"
    /\ Edit("task_edit", EDITING_TASKS, "clip_name", selected_id, clip_name_ed)

TaskDelete(selected_id) ==
    /\ page = "page_editing_progress"
    /\ Delete("task_delete", EDITING_TASKS, selected_id)

\* ------------------------------------------------------------------ main
\* The sidebar radio: main() calls the chosen page function, which loads its
\* tables and writes nothing. The model follows a session from the page it
\* settles on: the choice is made while the data directory is still empty.
SelectPage(page_label) ==
    /\ TotalRows(csv) = 0
    /\ DOMAIN disk = {}
    /\ page' = page_label
    /\ UNCHANGED <<csv, disk, call, mem>>
    /\ last' = Run("select_page", 0, "", <<>>, 0, 0)

IdRange == 1..MaxId

\* The bounds on the model. A request that appends n rows to df is followed
\* while the data directory has room for them and the ids stay within MaxId;
\* an upload is followed while the blob directories hold at most MaxStored
\* paths.
Fits(name, n) == Room(csv[name], n)

StoredAfter(dir, files) ==
    Cardinality(DOMAIN disk \cup {Join(dir, files[i].name) : i \in 1..Len(files)})
        <= MaxStored

\* What the user types into a text field that no handler validates.
Labels == {"a"}

Next ==
    \/ \E page_label \in Pages : SelectPage(page_label)
    \/ \E site_name \in Names : Fits(SITES, 1) /\ SiteCreate(site_name)
    \/ \E id \in IdRange, v \in Names : SiteEdit(id, v)
    \/ \E id \in IdRange : SiteDelete(id)
    \/ \E id \in IdRange, files \in Batches :
          /\ Fits(ASSETS, Len(files))
          /\ StoredAfter(ASSETS_DIR, files)
          /\ AssetUpload(id, files)
    \/ \E id \in IdRange, k \in 1..MaxRows : AssetDelete(id, k)
    \/ \E title \in Names : Fits(SCRIPTS, 1) /\ ScriptCreate(title)
    \/ \E id \in IdRange, v \in Names : ScriptEdit(id, v)
    \/ \E id \in IdRange : ScriptDelete(id)
    \/ \E id \in IdRange, v \in Labels, f \in OneFile :
          /\ Fits(STORYBOARDS, 1)
          /\ StoredAfter(Join(ASSETS_DIR, "storyboards"), f)
          /\ StoryboardCreate(id, v, f)
    \/ \E id \in IdRange, v \in Labels : StoryboardEdit(id, v)
    \/ \E id \in IdRange : StoryboardDelete(id)
    \/ \E name \in Names : Fits(DEPARTMENTS, 1) /\ DeptCreate(name)
    \/ \E id \in IdRange, v \in Names : DeptEdit(id, v)
    \/ \E id \in IdRange : DeptDelete(id)
    \/ \E v \in Labels : Fits(SCHEDULES, 1) /\ ScheduleCreate(v)
    \/ \E id \in IdRange, v \in Labels : ScheduleEdit(id, v)
    \/ \E id \in IdRange : ScheduleDelete(id)
    \/ \E v \in Labels : Fits(MEALS, 1) /\ MealCreate(v)
    \/ \E id \in IdRange, v \in Labels : MealEdit(id, v)
    \/ \E id \in IdRange : MealDelete(id)
    \/ \E clip_name \in Names : Fits(EDITING_TASKS, 1) /\ TaskCreate(clip_name)
    \/ \E id \in IdRange, v \in Names : TaskEdit(id, v)
    \/ \E id \in IdRange : TaskDelete(id)
    \/ \E module \in Modules, id \in IdRange, files \in Batches :
          /\ Fits(ATTACHMENTS, Len(files))
          /\ StoredAfter(Join(UPLOAD_DIR, module), files)
          /\ AttachUpload(module, id, files)
    \/ \E module \in Modules, id \in IdRange, k \in 1..MaxRows :
          AttachDelete(module, id, k)

Spec == Init /\ [][Next]_vars

\* ------------------------------------------- parents and their children
\* Sessions on the two pages whose delete handlers cascade: sites with their
\* assets, scripts with their storyboards. Forms are filled in, no record is
\* edited and each upload carries one file, which leaves room for two
\* parents with a child each.
FamilyFits(name, n) ==
    /\ TotalRows(csv) + n <= MaxFamilyRows
    /\ (IF Len(csv[name]) > 0 THEN Max(Ids(csv[name])) ELSE 0) + n <= MaxId

OneFileBatches == [1..1 -> UploadedFiles]

NextFamily ==
    \/ \E page_label \in {"page_shooting_materials", "page_scripts_storyboard"} :
          SelectPage(page_label)
    \/ FamilyFits(SITES, 1) /\ SiteCreate("a")
    \/ \E id \in IdRange : SiteDelete(id)
    \/ \E id \in IdRange, files \in OneFileBatches :
          /\ FamilyFits(ASSETS, 1)
          /\ StoredAfter(ASSETS_DIR, files)
          /\ AssetUpload(id, files)
    \/ \E id \in IdRange, k \in 1..MaxFamilyRows : AssetDelete(id, k)
    \/ FamilyFits(SCRIPTS, 1) /\ ScriptCreate("a")
    \/ \E id \in IdRange : ScriptDelete(id)
    \/ \E id \in IdRange, v \in Labels :
          /\ FamilyFits(STORYBOARDS, 1)
          /\ StoryboardCreate(id, v, <<>>)
    \/ \E id \in IdRange : StoryboardDelete(id)

SpecFamily == Init /\ [][NextFamily]_vars

\* ------------------------------------------------------ upload sessions
\* Sessions on the schedule page, whose two modules (schedule and meal) each
\* carry an attachment section: parents are created and deleted, batches of
\* up to MaxBatch files with different names are uploaded onto tables that
\* already hold records, attachments are deleted.
UploadFits(name, n) ==
    /\ TotalRows(csv) + n <= MaxUploadRows
    /\ (IF Len(csv[name]) > 0 THEN Max(Ids(csv[name])) ELSE 0) + n <= MaxId

UploadStoredAfter(dir, files) ==
    Cardinality(DOMAIN disk \cup {Join(dir, files[i].name) : i \in 1..Len(files)})
        <= MaxUploadStored

NextUploads ==
    \/ SelectPage("page_shooting_schedule")
    \/ UploadFits(SCHEDULES, 1) /\ ScheduleCreate("a")
    \/ UploadFits(MEALS, 1) /\ MealCreate("a")
    \/ \E id \in IdRange : ScheduleDelete(id)
    \/ \E module \in {"schedule", "meal"}, id \in IdRange, files \in Batches :
          /\ UploadFits(ATTACHMENTS, Len(files))
          /\ UploadStoredAfter(Join(UPLOAD_DIR, module), files)
          /\ AttachUpload(module, id, files)
    \/ \E module \in {"schedule", "meal"}, id \in IdRange, k \in 1..MaxUploadRows :
          AttachDelete(module, id, k)

SpecUploads == Init /\ [][NextUploads]_vars

\* A handler that reloads departments.csv right before it saves.
WorkingReloaded(i) == load_csv(DEPARTMENTS)

\* ----------------------------------------------- uploads of one file name
\* Two files that carry the same name and different content.
SameNameFiles ==
    { [name |-> "a.png", type |-> IMAGE_PNG, data |-> 1],
      [name |-> "a.png", type |-> IMAGE_PNG, data |-> 2] }

SameNameBatches == UNION {[1..n -> SameNameFiles] : n \in 1..MaxBatch}

\* Sessions on the schedule page in which every uploaded file is called
\* a.png: in one batch, in several requests, for several parents and for the
\* two modules of the page.
NextSameName ==
    \/ SelectPage("page_shooting_schedule")
    \/ UploadFits(SCHEDULES, 1) /\ ScheduleCreate("a")
    \/ UploadFits(MEALS, 1) /\ MealCreate("a")
    \/ \E module \in {"schedule", "meal"}, id \in IdRange, files \in SameNameBatches :
          /\ UploadFits(ATTACHMENTS, Len(files))
          /\ AttachUpload(module, id, files)

SpecSameName == Init /\ [][NextSameName]_vars

\* ------------------------------------------ dates and times of the forms
\* The dates a date_input may hold and the times a time_input may hold; TODAY
\* is date.today().
TODAY == "today"
Dates == {"2024-05-01", "2024-05-02", TODAY}
Times == {"09:00", "10:00", "12:00", "14:30"}

\* An ISO 8601 text by its shape: which of the date part and the time part it
\* has. date.isoformat() gives YYYY-MM-DD, time.isoformat() HH:MM:SS and
\* datetime.isoformat() YYYY-MM-DDTHH:MM:SS.
date_isoformat(d) == [date |-> d]
time_isoformat(t) == [time |-> t]
datetime_isoformat(d, t) == [date |-> d, time |-> t]

VALUE_ERROR == [raised |-> "ValueError"]

\* datetime.fromisoformat(s): a text without a date part raises ValueError;
\* a date alone is midnight of that date.
fromisoformat(s) ==
    IF "date" \in DOMAIN s
    THEN [date |-> s.date, time |-> IF "time" \in DOMAIN s THEN s.time ELSE "00:00"]
    ELSE VALUE_ERROR

\* try: datetime.fromisoformat(str(v)).date() / except Exception: default
DateOr(v, default) == IF fromisoformat(v) = VALUE_ERROR THEN default ELSE fromisoformat(v).date

\* try: datetime.fromisoformat(str(v)).time() / except Exception: default
TimeOr(v, default) == IF fromisoformat(v) = VALUE_ERROR THEN default ELSE fromisoformat(v).time

\* The date and time columns a create form stores.
StoredByCreate(form, d, t1, t2) ==
    CASE form = "site" -> [visit_datetime |-> datetime_isoformat(d, t1)]
      [] form = "schedule" -> [date |-> date_isoformat(d),
                               start_time |-> time_isoformat(t1),
                               end_time |-> time_isoformat(t2)]
      [] form = "meal" -> [date |-> date_isoformat(d), time |-> time_isoformat(t1)]

\* The date and time columns the save button of the edit form stores when the
\* inputs are left as the form pre-filled them from `row`.
StoredByUntouchedEdit(form, row) ==
    CASE form = "site" ->
            [visit_datetime |->
                IF fromisoformat(row.visit_datetime) = VALUE_ERROR
                THEN datetime_isoformat(TODAY, "09:00")
                ELSE datetime_isoformat(fromisoformat(row.visit_datetime).date,
                                        fromisoformat(row.visit_datetime).time)]
      [] form = "schedule" ->
            [date |-> date_isoformat(DateOr(row.date, TODAY)),
             start_time |-> time_isoformat(TimeOr(row.start_time, "09:00")),
             end_time |-> time_isoformat(TimeOr(row.end_time, "10:00"))]
      [] form = "meal" ->
            [date |-> date_isoformat(DateOr(row.date, TODAY)),
             time |-> time_isoformat(TimeOr(row.time, "12:00"))]

\* A record is created with the form's date and times; the site and meal
\* forms have one time input.
InitUntouched ==
    /\ Fresh
    /\ \E form \in {"site", "schedule", "meal"}, d \in Dates, t1 \in Times, t2 \in Times :
          /\ form # "schedule" => t2 = t1
          /\ call = [fn |-> "edit_untouched", form |-> form,
                     created |-> StoredByCreate(form, d, t1, t2)]

\* Its edit form is opened and saved as pre-filled.
SaveUntouched ==
    /\ call.fn = "edit_untouched"
    /\ "saved" \notin DOMAIN call
    /\ call' = [fn |-> call.fn, form |-> call.form, created |-> call.created,
                saved |-> StoredByUntouchedEdit(call.form, call.created)]
    /\ UNCHANGED <<csv, disk, page, last, mem>>

SpecUntouched == InitUntouched /\ [][SaveUntouched]_vars

\* ------------------------------------------------------ edits in place
\* What may be typed into a title or a shot number: a plain text, or one of
\* the texts read_csv takes for a missing value.
Titles == {"a", "nan"}

\* Sessions on the script page: scripts and storyboards are created, edited
\* and deleted.
NextEdit ==
    \/ SelectPage("page_scripts_storyboard")
    \/ \E title \in Titles : Fits(SCRIPTS, 1) /\ ScriptCreate(title)
    \/ \E id \in IdRange, v \in Titles : ScriptEdit(id, v)
    \/ \E id \in IdRange : ScriptDelete(id)
    \/ \E id \in IdRange, v \in Titles :
          /\ Fits(STORYBOARDS, 1)
          /\ StoryboardCreate(id, v, <<>>)
    \/ \E id \in IdRange, v \in Titles : StoryboardEdit(id, v)
    \/ \E id \in IdRange : StoryboardDelete(id)

SpecEdit == Init /\ [][NextEdit]_vars

\* ------------------------------------------------ a cascade, save by save
\* Sessions of one instance on the two pages whose delete handlers cascade,
\* with the two save_csv calls of a cascade as two steps: the first file is
\* written, then the second. The process may stop between the two.
ONE == "A"

BeginCascade(op, name, child, fk, selected_id) ==
    LET df == load_csv(name)
        children == load_csv(child)
        kept == WithoutId(df, selected_id)
        kept_children == WithoutRef(children, fk, selected_id)
        writes == CascadeWrites(name, kept, child, kept_children)
    IN /\ mem[ONE].pc = "idle"
       /\ selected_id \in Ids(df)
       /\ csv' = save_csv(csv, <<writes[1]>>)
       /\ last' = Run(op, selected_id, "", <<writes[1]>>, 0, 0)
       /\ mem' = [mem EXCEPT ![ONE] = [pc |-> "saving", name |-> writes[2][1],
                                       df |-> writes[2][2], runs |-> @.runs,
                                       behind |-> FALSE]]
       /\ UNCHANGED <<disk, page, call>>

SiteDeleteBegin(selected_id) ==
    /\ page = "page_shooting_materials"
    /\ BeginCascade("site_delete", SITES, ASSETS, "site_id", selected_id)

ScriptDeleteBegin(selected_id) ==
    /\ page = "page_scripts_storyboard"
    /\ BeginCascade("script_delete", SCRIPTS, STORYBOARDS, "script_id", selected_id)

\* The second save_csv of the handler, and its st.warning.
EndCascade ==
    /\ mem[ONE].pc = "saving"
    /\ csv' = save_csv(csv, <<<<mem[ONE].name, mem[ONE].df>>>>)
    /\ last' = [last EXCEPT !.msg = "warning", !.saved = Append(@, mem[ONE].name)]
    /\ mem' = [mem EXCEPT ![ONE] = Idle(@.runs)]
    /\ UNCHANGED <<disk, page, call>>

\* The process is killed between the two saves and started again.
StopCascade ==
    /\ mem[ONE].pc = "saving"
    /\ mem' = [mem EXCEPT ![ONE] = Idle(@.runs)]
    /\ last' = [last EXCEPT !.msg = "stopped"]
    /\ UNCHANGED <<csv, disk, page, call>>

NextCascade ==
    \/ \E page_label \in {"page_shooting_materials", "page_scripts_storyboard"} :
          mem[ONE].pc = "idle" /\ SelectPage(page_label)
    \/ mem[ONE].pc = "idle" /\ FamilyFits(SITES, 1) /\ SiteCreate("a")
    \/ \E id \in IdRange : SiteDeleteBegin(id)
    \/ \E id \in IdRange, files \in OneFileBatches :
          /\ mem[ONE].pc = "idle"
          /\ FamilyFits(ASSETS, 1)
          /\ StoredAfter(ASSETS_DIR, files)
          /\ AssetUpload(id, files)
    \/ mem[ONE].pc = "idle" /\ FamilyFits(SCRIPTS, 1) /\ ScriptCreate("a")
    \/ \E id \in IdRange : ScriptDeleteBegin(id)
    \/ \E id \in IdRange, v \in Labels :
          /\ mem[ONE].pc = "idle"
          /\ FamilyFits(STORYBOARDS, 1)
          /\ StoryboardCreate(id, v, <<>>)
    \/ EndCascade
    \/ StopCascade

SpecCascade == Init /\ [][NextCascade]_vars

\* ------------------------------------------------- concurrent instances
\* Two instances show the department page of one data directory. A script run
\* of an instance loads departments.csv at the top of the page function and,
\* when a form was submitted, saves its in-memory copy further down; runs of
\* the two instances interleave between the load and the save. Nothing locks
\* the file and no handler compares it with what it loaded.
Working(i) == mem[i].df

\* What the department names typed into the forms may be.
DeptNames == {"a", "b"}

Load(i) ==
    /\ page = "page_departments"
    /\ mem[i].pc = "idle"
    /\ mem[i].runs < MaxRuns
    /\ mem' = [mem EXCEPT ![i] = [pc |-> "loaded", name |-> DEPARTMENTS,
                                   df |-> load_csv(DEPARTMENTS), runs |-> @.runs,
                                   behind |-> FALSE]]
    /\ UNCHANGED <<csv, disk, page, last, call>>

\* The end of instance i's run: its writes reach the file, every other
\* instance that holds a loaded copy is now behind.
Submit(i, op, sel, msg, writes, added, dropped) ==
    /\ csv' = save_csv(csv, writes)
    /\ last' = Run(op, sel, msg, writes, added, dropped)
    /\ mem' = [j \in Instances |->
                  IF j = i THEN [Idle(mem[i].runs + 1) EXCEPT !.behind = mem[i].behind]
                  ELSE IF mem[j].pc = "loaded" /\ writes # <<>>
                       THEN [mem[j] EXCEPT !.behind = TRUE]
                       ELSE mem[j]]
    /\ UNCHANGED <<disk, page, call>>

ConcurrentDeptCreate(i, name) ==
    /\ mem[i].pc = "loaded"
    /\ LET df == Working(i)
       IN IF NotStr(name)
          THEN Submit(i, "dept_create", 0, "error", <<>>, 0, 0)
          ELSE LET new_row == [id |-> NextId(df), name |-> name]
               IN Submit(i, "dept_create", 0, "success",
                         <<<<DEPARTMENTS, Concat(df, new_row)>>>>, 1, 0)

ConcurrentDeptEdit(i, selected_id, name_ed) ==
    /\ mem[i].pc = "loaded"
    /\ LET df == Working(i)
       IN /\ selected_id \in Ids(df)
          /\ Submit(i, "dept_edit", selected_id, "success",
                    <<<<DEPARTMENTS, At(df, IndexOf(df, selected_id), "name", name_ed)>>>>,
                    0, 0)

ConcurrentDeptDelete(i, selected_id) ==
    /\ mem[i].pc = "loaded"
    /\ LET df == Working(i)
           kept == WithoutId(df, selected_id)
       IN /\ selected_id \in Ids(df)
          /\ Submit(i, "dept_delete", selected_id, "warning",
                    <<<<DEPARTMENTS, kept>>>>, 0, Len(df) - Len(kept))

NextConcurrent ==
    \/ SelectPage("page_departments")
    \/ \E i \in Instances : Load(i)
    \/ \E i \in Instances, name \in DeptNames :
          /\ Len(Working(i)) < MaxRows
          /\ NextId(Working(i)) <= MaxId
          /\ ConcurrentDeptCreate(i, name)
    \/ \E i \in Instances, id \in IdRange, v \in DeptNames : ConcurrentDeptEdit(i, id, v)
    \/ \E i \in Instances, id \in IdRange : ConcurrentDeptDelete(i, id)

SpecConcurrent == Init /\ [][NextConcurrent]_vars

\* --------------------------------------------------- the preview alone
\* The file types the classifier stores in the file_type column.
FileTypes == {"image", "video", "pdf", "other"}

DOWNLOAD_PDF == "download_pdf"
DOWNLOAD_FILE == "download_file"

\* The download buttons one script run may already hold when a row of a
\* listing is previewed: those of the rows listed before it. A button has no
\* key, so Streamlit identifies it by its label, file name and MIME type.
Widgets ==
    SUBSET ({DOWNLOAD_PDF, DOWNLOAD_FILE} \X {f.name : f \in UploadedFiles})

\* st.download_button(label, file_name=p.name, ...): a second button with
\* the same identity raises DuplicateWidgetID, which the except clause of
\* _preview_file turns into st.error.
download_button(label, file_name, widgets) ==
    IF <<label, file_name>> \in widgets
    THEN [shown |-> "error", widgets |-> widgets]
    ELSE [shown |-> label, widgets |-> widgets \cup {<<label, file_name>>}]

\* _preview_file(path, file_type), with p.exists() and p.name for the path
\* and the buttons of the run so far: what is shown, and the buttons after.
preview_file(exists, file_name, file_type, widgets) ==
    IF ~exists THEN [shown |-> "warning", widgets |-> widgets]
    ELSE IF file_type = "image" THEN [shown |-> "image", widgets |-> widgets]
    ELSE IF file_type = "video" THEN [shown |-> "video", widgets |-> widgets]
    ELSE IF file_type = "pdf" THEN download_button(DOWNLOAD_PDF, file_name, widgets)
    ELSE download_button(DOWNLOAD_FILE, file_name, widgets)

InitPreview ==
    /\ Fresh
    /\ \E exists \in BOOLEAN, f \in UploadedFiles, file_type \in FileTypes,
          widgets \in Widgets :
          call = [fn |-> "_preview_file", exists |-> exists, file_name |-> f.name,
                  file_type |-> file_type, widgets |-> widgets]

Preview ==
    /\ call.fn = "_preview_file"
    /\ "shown" \notin DOMAIN call
    /\ LET out == preview_file(call.exists, call.file_name, call.file_type,
                               call.widgets)
       IN call' = [fn |-> call.fn, exists |-> call.exists,
                   file_name |-> call.file_name, file_type |-> call.file_type,
                   widgets |-> call.widgets, shown |-> out.shown,
                   widgets_after |-> out.widgets]
    /\ UNCHANGED <<csv, disk, page, last, mem>>

SpecPreview == InitPreview /\ [][Preview]_vars

\* --------------------------------------------- forms without validation
\* Sessions on the two pages whose create forms save whatever they hold: the
\* schedule and meal forms, and the storyboard form of a script. Every text
\* field of a form may be left empty.
NextPlain ==
    \/ \E page_label \in {"page_scripts_storyboard", "page_shooting_schedule"} :
          SelectPage(page_label)
    \/ Fits(SCRIPTS, 1) /\ ScriptCreate("a")
    \/ \E id \in IdRange : ScriptDelete(id)
    \/ \E id \in IdRange, v \in Names :
          /\ Fits(STORYBOARDS, 1)
          /\ StoryboardCreate(id, v, <<>>)
    \/ \E id \in IdRange : StoryboardDelete(id)
    \/ \E v \in Names : Fits(SCHEDULES, 1) /\ ScheduleCreate(v)
    \/ \E id \in IdRange : ScheduleDelete(id)
    \/ \E v \in Names : Fits(MEALS, 1) /\ MealCreate(v)
    \/ \E id \in IdRange : MealDelete(id)

SpecPlain == Init /\ [][NextPlain]_vars

\* ------------------------------------------------ the classifier alone
\* The declared types the classifier is tried on: every head followed by
\* every tail, the empty type (and None, which `not mime` treats alike) among
\* them.
MimeHeads ==
    { <<>>, IMAGE, VIDEO, APPLICATION_PDF,
      <<"i", "m", "a", "g">>, <<"v", "i", "d", "e">>,
      <<"I", "m", "a", "g", "e">>, <<"x">> \o IMAGE, <<"x">> \o VIDEO,
      <<"a", "p", "p", "l", "i", "c", "a", "t", "i", "o", "n">>,
      <<"t", "e", "x", "t">> }

MimeTails ==
    { <<>>, <<"/", "p", "n", "g">>, <<"/", "m", "p", "4">>, <<"/", "p", "d", "f">>,
      <<"/", "p", "l", "a", "i", "n">>, <<"x">> }

MimeTypes == {h \o t : h \in MimeHeads, t \in MimeTails}

InitMime ==
    /\ Fresh
    /\ \E mime \in MimeTypes : call = [fn |-> "simple_type_from_mime", mime |-> mime]

Classify ==
    /\ call.fn = "simple_type_from_mime"
    /\ "file_type" \notin DOMAIN call
    /\ call' = [fn |-> call.fn, mime |-> call.mime,
                file_type |-> simple_type_from_mime(call.mime)]
    /\ UNCHANGED <<csv, disk, page, last, mem>>

SpecMime == InitMime /\ [][Classify]_vars

\* ================================================================ claims
\* The handlers that append rows, and the table each appends to.
CreateOps ==
    {"site_create", "asset_upload", "script_create", "storyboard_create",
     "dept_create", "schedule_create", "meal_create", "task_create", "attach_upload"}

TableOf(op) ==
    CASE op \in {"site_create", "site_edit", "site_delete"} -> SITES
      [] op \in {"asset_upload", "asset_delete"} -> ASSETS
      [] op \in {"script_create", "script_edit", "script_delete"} -> SCRIPTS
      [] op \in {"storyboard_create", "storyboard_edit", "storyboard_delete"} -> STORYBOARDS
      [] op \in {"dept_create", "dept_edit", "dept_delete"} -> DEPARTMENTS
      [] op \in {"schedule_create", "schedule_edit", "schedule_delete"} -> SCHEDULES
      [] op \in {"meal_create", "meal_edit", "meal_delete"} -> MEALS
      [] op \in {"task_create", "task_edit", "task_delete"} -> EDITING_TASKS
      [] op \in {"attach_upload", "attach_delete"} -> ATTACHMENTS

DeleteOps ==
    {"site_delete", "asset_delete", "script_delete", "storyboard_delete",
     "dept_delete", "schedule_delete", "meal_delete", "task_delete", "attach_delete"}

IdSeq(rows) == [i \in 1..Len(rows) |-> rows[i].id]

\* The greatest id of a table, 0 for the empty table.
TopId(rows) ==
    IF Len(rows) = 0 THEN 0
    ELSE CHOOSE m \in Ids(rows) : \A x \in Ids(rows) : x <= m

\* A run that appended rows with success.
Created(run) == run.op \in CreateOps /\ run.msg = "success"

\* C1 as stated: a successful create appends exactly one record, whose id is
\* the maximum id of the table as loaded plus 1, or 1 on an empty table.
C1_OneRecordPerCreate ==
    [][Created(last') =>
          LET old == csv[TableOf(last'.op)]
              new == csv'[TableOf(last'.op)]
          IN /\ Len(new) = Len(old) + 1
             /\ IdSeq(SubSeq(new, 1, Len(old))) = IdSeq(old)
             /\ new[Len(new)].id = TopId(old) + 1]_vars

\* C1 (amended): a successful create appends one record per created item, one
\* for a form and one per file for an upload, after the rows already there;
\* the k-th appended record has the maximum id of the table as loaded plus k
\* (k on an empty table).
C1_CreateIds ==
    [][Created(last') =>
          LET old == csv[TableOf(last'.op)]
              new == csv'[TableOf(last'.op)]
              n == Len(new) - Len(old)
          IN /\ n >= 1
             /\ last'.op \notin {"asset_upload", "attach_upload"} => n = 1
             /\ IdSeq(SubSeq(new, 1, Len(old))) = IdSeq(old)
             /\ \A k \in 1..n : new[Len(old) + k].id = TopId(old) + k]_vars

\* The scenario of the specification: a table holding only id 3 gets id 4.
C1_Witness ==
    /\ last.op = "dept_create"
    /\ last.msg = "success"
    /\ IdSeq(csv[DEPARTMENTS]) = <<3, 4>>

\* C2: ids are never reused after deletion. Checked in the instance a delete
\* followed by a create decides: the id of the record a delete has just
\* removed from a table is not assigned by the next create on that table.
C2_NoReuse ==
    [][(/\ last.op \in DeleteOps
        /\ Created(last')
        /\ TableOf(last'.op) = TableOf(last.op))
          => last.sel \notin Ids(csv'[TableOf(last.op)])]_vars

\* C3: no two records of one persisted table have the same id.
C3_UniqueIds ==
    \A t \in Tables : \A i, j \in 1..Len(csv[t]) :
        i # j => csv[t][i].id # csv[t][j].id

\* A two-file upload has just been appended to the attachments table.
C3_Witness ==
    /\ last.op = "attach_upload"
    /\ last.added = 2
    /\ Len(csv[ATTACHMENTS]) = 2

\* What a cascade leaves of the child table `old`: no row whose foreign key
\* is the deleted parent's id, and every row of another parent.
Cascaded(old, new, fk, parent_id) ==
    /\ \A i \in 1..Len(new) : new[i][fk] # parent_id
    /\ \A i \in 1..Len(new) : \E j \in 1..Len(old) : old[j] = new[i]
    /\ \A j \in 1..Len(old) :
          old[j][fk] # parent_id => \E i \in 1..Len(new) : new[i] = old[j]

\* C4: deleting a site removes, in the same request, every asset of that site,
\* and deleting a script every storyboard of that script; the children of the
\* other parents all stay.
C4_CascadeDelete ==
    [][/\ last'.op = "site_delete" =>
            /\ last'.sel \notin Ids(csv'[SITES])
            /\ Cascaded(csv[ASSETS], csv'[ASSETS], "site_id", last'.sel)
       /\ last'.op = "script_delete" =>
            /\ last'.sel \notin Ids(csv'[SCRIPTS])
            /\ Cascaded(csv[STORYBOARDS], csv'[STORYBOARDS], "script_id", last'.sel)]_vars

\* A site was deleted with at least one asset, and another site's asset stays.
C4_Witness ==
    /\ last.op = "site_delete"
    /\ last.dropped >= 2
    /\ Len(csv[ASSETS]) >= 1

\* The module whose parent table a delete handler removes its record from.
ParentDeletes ==
    {"site_delete", "script_delete", "storyboard_delete", "dept_delete",
     "schedule_delete", "meal_delete", "task_delete"}

ModuleOf(op) ==
    CASE op = "site_delete" -> "site"
      [] op = "script_delete" -> "script"
      [] op = "storyboard_delete" -> "storyboard"
      [] op = "dept_delete" -> "department"
      [] op = "schedule_delete" -> "schedule"
      [] op = "meal_delete" -> "meal"
      [] op = "task_delete" -> "editing"

\* C5: when a parent record has been deleted, attachments.csv holds no record
\* of the parent's module whose ref_id is the deleted parent's id.
C5_AttachmentsCascade ==
    last.op \in ParentDeletes =>
        \A i \in 1..Len(csv[ATTACHMENTS]) :
            ~(/\ csv[ATTACHMENTS][i].module = ModuleOf(last.op)
              /\ csv[ATTACHMENTS][i].ref_id = last.sel)

\* C6: the list for (module X, parent id Y) holds exactly the attachment
\* records with module X and ref_id Y, in table order; none of them is listed
\* for (X, Z) with Z # Y, nor for another module with the same ref_id.
C6_ListingExact ==
    LET attachments == load_csv(ATTACHMENTS)
        Matches(X, Y) ==
            {i \in 1..Len(attachments) :
                attachments[i].module = X /\ attachments[i].ref_id = Y}
    IN \A X \in Modules, Y \in IdRange :
         LET view == AttachView(attachments, X, Y)
         IN /\ Len(view) = Cardinality(Matches(X, Y))
            /\ \A i \in 1..Len(view) : view[i].module = X /\ view[i].ref_id = Y
            /\ \A i \in Matches(X, Y) : \E k \in 1..Len(view) : view[k] = attachments[i]
            /\ \A k \in 1..Len(view) :
                 /\ \A Z \in IdRange \ {Y} :
                      LET other == AttachView(attachments, X, Z)
                      IN \A j \in 1..Len(other) : other[j] # view[k]
                 /\ \A X2 \in Modules \ {X} :
                      LET other == AttachView(attachments, X2, Y)
                      IN \A j \in 1..Len(other) : other[j] # view[k]

\* A script's attachment exists while a storyboard with the same id and
\* another script can be selected.
C6_Witness ==
    /\ \E i \in 1..Len(csv[ATTACHMENTS]) :
          /\ csv[ATTACHMENTS][i].module = "script"
          /\ csv[ATTACHMENTS][i].ref_id = 1
    /\ 1 \in Ids(csv[STORYBOARDS])
    /\ page = "page_scripts_storyboard"

\* C7: the classification of a declared MIME type: empty gives other; a type
\* starting with "image" gives image; otherwise one starting with "video"
\* gives video; otherwise exactly "application/pdf" gives pdf; everything else
\* gives other; the result is one of image, video, pdf, other.
C7_Classification ==
    ("file_type" \in DOMAIN call) =>
        LET mime == call.mime
            file_type == call.file_type
            isImage == Len(mime) >= 5 /\ SubSeq(mime, 1, 5) = IMAGE
            isVideo == Len(mime) >= 5 /\ SubSeq(mime, 1, 5) = VIDEO
        IN /\ file_type \in {"image", "video", "pdf", "other"}
           /\ mime = <<>> => file_type = "other"
           /\ isImage => file_type = "image"
           /\ (~isImage /\ isVideo) => file_type = "video"
           /\ (~isImage /\ ~isVideo /\ mime = APPLICATION_PDF) => file_type = "pdf"
           /\ (~isImage /\ ~isVideo /\ mime # APPLICATION_PDF) => file_type = "other"
           /\ mime = IMAGE_PNG => file_type = "image"
           /\ mime = TEXT_PLAIN => file_type = "other"

\* A type that only starts with "application/pdf" has been classified.
C7_Witness ==
    /\ "file_type" \in DOMAIN call
    /\ call.mime = APPLICATION_PDF \o <<"x">>
    /\ call.file_type = "other"

\* C8: an upload of n >= 1 files for parent p of module m appends exactly n
\* records to attachments.csv, one per file in upload order, each with module
\* m, ref_id p and an id that no record of the table and no other record of
\* the batch has; an upload of no file writes nothing.
C8_UploadAppends ==
    [][last'.op = "attach_upload" =>
          \A m \in Modules, p \in IdRange, files \in Batches :
              AttachUpload(m, p, files) =>
                  LET old == csv[ATTACHMENTS]
                      new == csv'[ATTACHMENTS]
                      n == Len(files)
                  IN IF n >= 1
                     THEN /\ Len(new) = Len(old) + n
                          /\ SubSeq(new, 1, Len(old)) = old
                          /\ last'.saved = <<ATTACHMENTS>>
                          /\ \A k \in 1..n :
                               LET r == new[Len(old) + k]
                               IN /\ r.module = m
                                  /\ r.ref_id = p
                                  /\ r.file_name = files[k].name
                                  /\ r.id \notin Ids(old)
                                  /\ \A k2 \in (1..n) \ {k} :
                                        new[Len(old) + k2].id # r.id
                     ELSE /\ csv' = csv
                          /\ disk' = disk
                          /\ last'.saved = <<>>]_vars

\* Two files with different names have been uploaded in one request onto a
\* table that held a record with a higher id than the table's first.
C8_Witness ==
    /\ last.op = "attach_upload"
    /\ last.added = 2
    /\ Len(csv[ATTACHMENTS]) = 3
    /\ csv[ATTACHMENTS][1].id = 2
    /\ csv[ATTACHMENTS][2].file_name # csv[ATTACHMENTS][3].file_name

\* rows without the one at position j
RemoveAt(rows, j) == SubSeq(rows, 1, j - 1) \o SubSeq(rows, j + 1, Len(rows))

C10_EmptyRequiredAborts ==
    [][(SiteCreate("") \/ ScriptCreate("") \/ DeptCreate("") \/ TaskCreate("")) =>
          /\ last'.msg = "error"
          /\ last'.saved = <<>>
          /\ last'.added = 0
          /\ csv' = csv
          /\ disk' = disk]_vars

\* A site form with an empty name has been rejected on a table holding a site.
C10_Witness ==
    /\ last.op = "site_create"
    /\ last.msg = "error"
    /\ Len(csv[SITES]) >= 1

\* C11: every create a page offers rejects a submission whose required field
\* is empty without writing a record. For the schedule, meal and storyboard
\* forms, taken in its weakest reading: a submission whose text fields are all
\* empty is reported as an error and changes no table.
C11_EveryCreateValidates ==
    [][(\/ ScheduleCreate("")
        \/ MealCreate("")
        \/ \E id \in IdRange : StoryboardCreate(id, "", <<>>))
          => /\ last'.msg = "error"
             /\ last'.saved = <<>>
             /\ csv' = csv]_vars

\* C12: what a preview shows depends only on whether the file exists and on
\* file_type, and is one of five outcomes: a warning when the file is missing,
\* otherwise the image, the video, the PDF download or the generic download.
C12_PreviewFiveOutcomes ==
    ("shown" \in DOMAIN call) =>
        call.shown =
            (IF ~call.exists THEN "warning"
             ELSE CASE call.file_type = "image" -> "image"
                    [] call.file_type = "video" -> "video"
                    [] call.file_type = "pdf" -> DOWNLOAD_PDF
                    [] OTHER -> DOWNLOAD_FILE)

\* The records of a table, as a set.
Records(rows) == {rows[k] : k \in 1..Len(rows)}

\* Instance i saves its copy in this step after another instance has saved
\* since i loaded: both had loaded before either saved.
LaterWriter(i) ==
    /\ mem[i].pc = "loaded"
    /\ mem[i].behind
    /\ mem'[i].pc = "idle"
    /\ last'.saved # <<>>

\* C13 as stated: when the later of two writers saves, neither sees an error
\* and the earlier writer's change is absent from the persisted table: the
\* record it created is not in the table, the record it deleted is back.
C13_EarlierChangeAbsent ==
    [][\A i \in Instances :
          LaterWriter(i) =>
              LET before == csv[DEPARTMENTS]
                  now == csv'[DEPARTMENTS]
              IN /\ last'.msg \in {"success", "warning"}
                 /\ (last.op = "dept_create" /\ last.msg = "success")
                       => before[Len(before)] \notin Records(now)
                 /\ last.op = "dept_delete" => last.sel \in Ids(now)]_vars

\* C13: when the later of two writers saves, neither sees an error and the
\* persisted table is the later writer's copy: the table as that writer
\* loaded it with its own create, edit or delete applied. A record the earlier
\* writer put into the file is kept only if it equals one the later writer
\* wrote itself, and a record the earlier writer deleted is back unless the
\* later writer deleted it too.
C13_LastWriterWins ==
    [][\A i \in Instances :
          LaterWriter(i) =>
              LET mine == mem[i].df
                  before == csv[DEPARTMENTS]
                  now == csv'[DEPARTMENTS]
                  sel == last'.sel
              IN /\ last'.msg \in {"success", "warning"}
                 /\ last'.op = "dept_create" =>
                       /\ Len(now) = Len(mine) + 1
                       /\ SubSeq(now, 1, Len(mine)) = mine
                       /\ now[Len(now)].id = TopId(mine) + 1
                 /\ last'.op = "dept_edit" =>
                       /\ IdSeq(now) = IdSeq(mine)
                       /\ \A k \in 1..Len(mine) : mine[k].id # sel => now[k] = mine[k]
                 /\ last'.op = "dept_delete" =>
                       /\ sel \notin Ids(now)
                       /\ \A k \in 1..Len(mine) : mine[k].id # sel => mine[k] \in Records(now)
                       /\ Len(now) = Len(mine) - 1
                 /\ \A r \in Records(before) \ Records(mine) :
                       r \in Records(now) =>
                          \/ last'.op = "dept_create" /\ r = now[Len(now)]
                          \/ last'.op = "dept_edit" /\ r.id = sel
                 /\ \A r \in Records(mine) \ Records(before) :
                       r \in Records(now) \/ r.id = sel]_vars

\* Both instances have loaded the empty table and created a department each;
\* one record is persisted, the later writer's.
C13_Witness ==
    /\ mem["A"].runs = 1 /\ mem["B"].runs = 1
    /\ mem["A"].pc = "idle" /\ mem["B"].pc = "idle"
    /\ mem["A"].behind \/ mem["B"].behind
    /\ last.op = "dept_create"
    /\ Len(csv[DEPARTMENTS]) = 1

\* The children of parent p in a child table.
ChildrenOf(rows, fk, p) == {k \in 1..Len(rows) : rows[k][fk] = p}

\* C14: a cascade delete writes the parent table first and the child table
\* second. While the child table still awaits its write the deleted parent is
\* already gone from its table, and no step of a delete removes a parent's
\* children from the child table while that parent is still persisted.
C14_ParentFirst ==
    [][/\ mem'[ONE].pc = "saving" =>
            /\ last'.sel \notin Ids(csv'[TableOf(last'.op)])
            /\ csv'[mem'[ONE].name] = csv[mem'[ONE].name]
       /\ \A op \in {"site_delete", "script_delete"} :
            LET child == IF op = "site_delete" THEN ASSETS ELSE STORYBOARDS
                fk == IF op = "site_delete" THEN "site_id" ELSE "script_id"
            IN (/\ last'.op = op
                /\ ChildrenOf(csv[child], fk, last'.sel) # {}
                /\ ChildrenOf(csv'[child], fk, last'.sel) = {})
                  => /\ last'.sel \notin Ids(csv[TableOf(op)])
                     /\ last'.sel \notin Ids(csv'[TableOf(op)])]_vars

\* A site has been removed from shooting_sites.csv, the process has stopped
\* before assets.csv was written, and an asset of that site is persisted.
C14_Witness ==
    /\ last.op = "site_delete"
    /\ last.msg = "stopped"
    /\ last.sel \notin Ids(csv[SITES])
    /\ ChildrenOf(csv[ASSETS], "site_id", last.sel) # {}

\* The content the last file called `name` of a batch carries.
LastData(files, name) ==
    LET ks == {k \in 1..Len(files) : files[k].name = name}
    IN files[CHOOSE k \in ks : \A j \in ks : j <= k].data

\* C15: an upload stores each blob at uploads/<module>/<file name>: after the
\* request that path holds the content of the last file of that name, whatever
\* was stored there; every earlier record is kept as it was, each file gets a
\* record of its own with that path, so that records of one module with one
\* file name share a path and all refer to the latest content; no other path
\* is touched.
C15_SameNameOverwrites ==
    [][last'.op = "attach_upload" =>
          \A m \in Modules, p \in IdRange, files \in SameNameBatches \cup Batches :
              (Len(files) > 0 /\ AttachUpload(m, p, files)) =>
                  LET old == csv[ATTACHMENTS]
                      new == csv'[ATTACHMENTS]
                      PathOf(name) == "uploads/" \o m \o "/" \o name
                      written == {PathOf(files[k].name) : k \in 1..Len(files)}
                  IN /\ Len(new) = Len(old) + Len(files)
                     /\ SubSeq(new, 1, Len(old)) = old
                     /\ \A k \in 1..Len(files) :
                          /\ new[Len(old) + k].file_path = PathOf(files[k].name)
                          /\ disk'[PathOf(files[k].name)] = LastData(files, files[k].name)
                     /\ \A i, j \in 1..Len(new) : i # j => new[i].id # new[j].id
                     /\ \A i \in 1..Len(new) :
                          (new[i].module = m /\ new[i].file_name \in {files[k].name : k \in 1..Len(files)})
                             => /\ new[i].file_path = PathOf(new[i].file_name)
                                /\ disk'[new[i].file_path] = LastData(files, new[i].file_name)
                     /\ DOMAIN disk' = DOMAIN disk \cup written
                     /\ \A q \in DOMAIN disk \ written : disk'[q] = disk[q]]_vars

\* Two schedules each hold an attachment called a.png, uploaded in different
\* requests; the records share the path, which holds the second content.
C15_Witness ==
    /\ last.op = "attach_upload"
    /\ last.added = 1
    /\ Len(csv[ATTACHMENTS]) = 2
    /\ csv[ATTACHMENTS][1].ref_id # csv[ATTACHMENTS][2].ref_id
    /\ csv[ATTACHMENTS][1].file_path = csv[ATTACHMENTS][2].file_path
    /\ csv[ATTACHMENTS][1].id # csv[ATTACHMENTS][2].id
    /\ disk[csv[ATTACHMENTS][1].file_path] = 2

\* The column an edit form of the model overwrites.
EditedColumn(op) == IF op = "script_edit" THEN "title" ELSE "shot_no"

\* C16: saving an edit leaves the table with the same records in the same
\* order; the selected record keeps its id and its other columns and holds the
\* submitted value; every other record is as it was; only that table's file
\* is written and no other table changes.
C16_EditOnlySelected ==
    [][\A id \in IdRange, v \in Titles :
          (ScriptEdit(id, v) \/ StoryboardEdit(id, v)) =>
              LET t == TableOf(last'.op)
                  col == EditedColumn(last'.op)
                  old == csv[t]
                  new == csv'[t]
              IN /\ Len(new) = Len(old)
                 /\ \A k \in 1..Len(old) :
                      /\ new[k].id = old[k].id
                      /\ old[k].id # id => new[k] = old[k]
                      /\ old[k].id = id =>
                            /\ new[k][col] = v
                            /\ \A c \in DOMAIN old[k] \ {col} : new[k][c] = old[k][c]
                 /\ last'.saved = <<t>>
                 /\ \A t2 \in Tables \ {t} : csv'[t2] = csv[t2]
                 /\ disk' = disk]_vars

\* The module under which a parent table's records carry attachments.
ModuleOfTable(t) ==
    CASE t = SITES -> "site"
      [] t = SCRIPTS -> "script"
      [] t = STORYBOARDS -> "storyboard"
      [] t = DEPARTMENTS -> "department"
      [] t = SCHEDULES -> "schedule"
      [] t = MEALS -> "meal"
      [] t = EDITING_TASKS -> "editing"

\* C17: an attachment is listed only under the parent that was selected when
\* it was uploaded; in particular the attachment list of a parent record that
\* has just been created is empty.
C17_NoInheritedAttachments ==
    [][(/\ Created(last')
        /\ last'.op \in CreateOps \ {"asset_upload", "attach_upload"})
          => LET t == TableOf(last'.op)
                 created == csv'[t][Len(csv'[t])]
             IN \A k \in 1..Len(csv'[ATTACHMENTS]) :
                   ~(/\ csv'[ATTACHMENTS][k].module = ModuleOfTable(t)
                     /\ csv'[ATTACHMENTS][k].ref_id = created.id)]_vars

\* C18: for a site, schedule or meal created through its form, saving the edit
\* form with no input changed stores the date and time columns the record was
\* created with.
C18_UntouchedEditIsIdentity ==
    ("saved" \in DOMAIN call /\ call.fn = "edit_untouched") =>
        call.saved = call.created

\* C19: under every interleaving of the loads and saves of two instances, the
\* persisted table never holds two records with the same id.
C19_UniqueIdsConcurrent ==
    \A t \in Tables : Cardinality({csv[t][k].id : k \in 1..Len(csv[t])}) = Len(csv[t])

\* Both instances loaded the table holding record 1 and each created a
\* department under id 2; the later writer's save stands.
C19_Witness ==
    /\ \E i \in Instances : mem[i].pc = "idle" /\ mem[i].behind /\ mem[i].runs >= 1
    /\ mem["A"].runs + mem["B"].runs = 3
    /\ last.op = "dept_create"
    /\ last.msg = "success"
    /\ IdSeq(csv[DEPARTMENTS]) = <<1, 2>>
    /\ csv[DEPARTMENTS][2].name = "b"

\* C20: at the end of every request of a single session, every assets record
\* has the id of a persisted site in site_id and every storyboards record has
\* the id of a persisted script in script_id.
C20_ReferentialIntegrity ==
    /\ \A k \in 1..Len(csv[ASSETS]) :
          \E j \in 1..Len(csv[SITES]) : csv[SITES][j].id = csv[ASSETS][k].site_id
    /\ \A k \in 1..Len(csv[STORYBOARDS]) :
          \E j \in 1..Len(csv[SCRIPTS]) : csv[SCRIPTS][j].id = csv[STORYBOARDS][k].script_id

\* A script that owned a storyboard has been deleted; the storyboard of the
\* other script is persisted.
C20_Witness ==
    /\ last.op = "script_delete"
    /\ last.dropped = 2
    /\ Len(csv[SCRIPTS]) = 1
    /\ Len(csv[STORYBOARDS]) = 1

\* The persisted records that name a stored file.
FileRecords == Records(csv[ATTACHMENTS]) \cup Records(csv[ASSETS])

\* C21: the file_path of every persisted attachment record and of every
\* persisted asset record is a path stored on disk, so that the preview of
\* such a record never ends in the missing-file warning.
C21_RecordsNameStoredFiles ==
    \A r \in FileRecords :
        /\ r.file_path \in DOMAIN disk
        /\ \A widgets \in Widgets :
              preview_file(r.file_path \in DOMAIN disk, r.file_name, r.file_type,
                           widgets).shown # "warning"

\* A site has been deleted; the attachment uploaded for it is still persisted
\* and its file is still stored.
C21_Witness ==
    /\ last.op = "site_delete"
    /\ \E r \in Records(csv[ATTACHMENTS]) :
          /\ r.module = "site"
          /\ r.ref_id = last.sel
          /\ r.file_path \in DOMAIN disk

\* C22: every persisted site has a non-empty site_name, every script a
\* non-empty title, every department a non-empty name and every editing task
\* a non-empty clip_name, whatever creates and edits have happened.
C22_RequiredStaysNonEmpty ==
    /\ \A k \in 1..Len(csv[SITES]) : csv[SITES][k].site_name # ""
    /\ \A k \in 1..Len(csv[SCRIPTS]) : csv[SCRIPTS][k].title # ""
    /\ \A k \in 1..Len(csv[DEPARTMENTS]) : csv[DEPARTMENTS][k].name # ""
    /\ \A k \in 1..Len(csv[EDITING_TASKS]) : csv[EDITING_TASKS][k].clip_name # ""

====
